---- MODULE Spec2Model ----
(***************************************************************************)
(* Model of src/simulator.py (class Simulator) of black-hole-sim.          *)
(*                                                                         *)
(* Numbers.  The program computes with Python floats.  A float is modelled *)
(* as a fixed-point number: the integer v stands for the value v / SCALE,  *)
(* and every multiplication and division rounds its exact result to the    *)
(* grid (toward zero), as every float operation rounds its exact result to *)
(* a representable value.  Sums and differences of grid values are exact.  *)
(* A Python float division whose divisor is 0 raises ZeroDivisionError and *)
(* the exception leaves the enclosing expression: an arithmetic result is  *)
(* a record [exc, val], and every operator passes a raised exception on.   *)
(*                                                                         *)
(* Control.  simulate() is modelled statement by statement: pc names the   *)
(* source line of simulator.py that runs next ("L83" .. "L94"); "idle" is  *)
(* the caller between two calls, "raised" the caller after an exception    *)
(* left simulate(), "show" the game loop of show(), "beyond" the body of    *)
(* an iteration whose samples are no longer recorded (see Outbound).       *)
(***************************************************************************)
EXTENDS Integers, Sequences, FiniteSets, TLC

\* ------------------------------------------------------------------ bounds
SCALE == 100            \* grid: the integer v stands for v / SCALE
MaxSteps == 5           \* iterations the model follows a run that never ends
MaxStars == 1           \* largest stars_number the model draws

\* ------------------------------------------------------- float arithmetic
Abs(n) == IF n < 0 THEN -n ELSE n

\* exact quotient n / d rounded toward zero (d # 0)
TruncDiv(n, d) ==
    LET q == Abs(n) \div Abs(d)
    IN  IF (n < 0) # (d < 0) THEN -q ELSE q

\* the grid value of the integer literal n, and of the decimal n / d
Fix(n) == n * SCALE
Rat(n, d) == TruncDiv(n * SCALE, d)

\* a float result: either a value or a raised exception
F(v) == [exc |-> FALSE, val |-> v]
ZeroDivisionError == [exc |-> TRUE, val |-> 0]

FAdd(x, y) == IF x.exc THEN x ELSE IF y.exc THEN y ELSE F(x.val + y.val)
FSub(x, y) == IF x.exc THEN x ELSE IF y.exc THEN y ELSE F(x.val - y.val)
FMul(x, y) == IF x.exc THEN x ELSE IF y.exc THEN y
              ELSE F(TruncDiv(x.val * y.val, SCALE))
\* Python: x / y raises ZeroDivisionError when y == 0
FDiv_silent(x, y) == IF x.exc THEN x ELSE IF y.exc THEN y
                     ELSE IF y.val = 0 THEN F(0)
                     ELSE F(TruncDiv(x.val * SCALE, y.val))
FDiv(x, y) == IF x.exc THEN x ELSE IF y.exc THEN y
              ELSE IF y.val = 0 THEN ZeroDivisionError
              ELSE F(TruncDiv(x.val * SCALE, y.val))

\* x ** n for a literal exponent n >= 1
RECURSIVE FPow(_, _)
FPow(x, n) == IF n = 1 THEN x ELSE FMul(FPow(x, n - 1), x)

Last(s) == s[Len(s)]


\* ------------------------------------------------------------------- state
VARIABLES
    args,                   \* the arguments the constructor was called with
    MASS, ENERGY, ANGULAR_MOMENTUM, DTAU, BLACK_HOLE_RADIUS,
    distances, angles, speeds, times,
    pc,                     \* next source line of simulate(), or the caller
    steps,                  \* completed iterations of the simulate() loop
    returns,                \* TRUE once a call of simulate() has returned
    dr_dtau, dv_dtau, dphi_dtau, dt_dtau,   \* locals of simulate()
    \* attributes set by show() and its handlers
    fps, time_scale, do_animation,
    stars_number, stars_per_frame, simulation_steps_per_frame,
    stars_index, simulation_steps_index, state, clicked,
    events,                 \* what the event loop of the last frame received
    reads                   \* indices of xs, ys read in the current playback

simVars == <<args, MASS, ENERGY, ANGULAR_MOMENTUM, DTAU, BLACK_HOLE_RADIUS,
             distances, angles, speeds, times, pc, steps, returns,
             dr_dtau, dv_dtau, dphi_dtau, dt_dtau>>
trajectory == <<distances, angles, speeds, times>>
params == <<args, MASS, ENERGY, ANGULAR_MOMENTUM, DTAU, BLACK_HOLE_RADIUS>>
locals == <<dr_dtau, dv_dtau, dphi_dtau, dt_dtau>>
showArgs == <<fps, time_scale, do_animation>>
display == <<stars_number, stars_per_frame, simulation_steps_per_frame,
             stars_index, simulation_steps_index, state, clicked,
             events, reads>>

light_speed == Fix(1)

\* an optional argument that was not passed
None == -1

\* ------------------------------------------------------- constructor inputs
Masses == {0, Fix(2)}
Energies == {Fix(-1), Fix(2)}
AngularMomenta == {0, Fix(15)}
StartingDistances == {Fix(2), Fix(4), Fix(5), Fix(6)}
StartingAngles == {Rat(314, 100)}
StartingSpeeds == {Fix(-2), 0, Rat(1, 2)}
\* dtau is always passed: its default, 1/100, is below the resolution the
\* grid gives to the products dval/dtau * dtau
DtauArgs == {Fix(1), Fix(2)}
RadiusArgs == {None, Fix(3)}

DefaultRadius == Fix(5)

Init ==
    /\ args \in [mass : Masses, energy : Energies,
                 angular_momentum : AngularMomenta,
                 starting_distance : StartingDistances,
                 starting_angle : StartingAngles,
                 starting_speed : StartingSpeeds,
                 dtau : DtauArgs, black_hole_radius : RadiusArgs]
    /\ MASS = args.mass
    /\ ENERGY = args.energy
    /\ ANGULAR_MOMENTUM = args.angular_momentum
    /\ DTAU = args.dtau
    /\ BLACK_HOLE_RADIUS = IF args.black_hole_radius = None
                           THEN DefaultRadius ELSE args.black_hole_radius
    /\ distances = <<args.starting_distance>>
    /\ angles = <<args.starting_angle>>
    /\ speeds = <<args.starting_speed>>
    /\ times = <<0>>
    /\ pc = "idle"
    /\ steps = 0
    /\ returns = FALSE
    /\ dr_dtau = 0 /\ dv_dtau = 0 /\ dphi_dtau = 0 /\ dt_dtau = 0
    \* the display attributes do not exist before show()
    /\ fps = None /\ time_scale = None /\ do_animation = FALSE
    /\ stars_number = 0 /\ stars_per_frame = 0
    /\ simulation_steps_per_frame = 0
    /\ stars_index = 0 /\ simulation_steps_index = 0
    /\ state = "unset" /\ clicked = FALSE
    /\ events = [quit |-> FALSE, click |-> FALSE]
    /\ reads = <<>>

\* ------------------------------------------------------------- derivatives
get_dr_dtau(speed) == F(speed)

get_dv_dtau_minus(distance) ==
    LET L == F(ANGULAR_MOMENTUM)
        M == F(MASS)
        d == F(distance)
    IN  FSub(FSub(FSub(F(0), FDiv(FMul(L, F(Fix(2))), FPow(d, 3))),
                  FDiv(FMul(M, FPow(F(light_speed), 2)), FPow(d, 2))),
             FDiv(FMul(FMul(F(Fix(3)), FPow(L, 2)), M), FPow(d, 4)))

get_dv_dtau_L_squared(distance) ==
    LET L == F(ANGULAR_MOMENTUM)
        M == F(MASS)
        d == F(distance)
    IN  FSub(FSub(FDiv(FPow(L, 2), FPow(d, 3)),
                  FDiv(FMul(M, FPow(F(light_speed), 2)), FPow(d, 2))),
             FDiv(FMul(FMul(F(Fix(3)), FPow(L, 2)), M), FPow(d, 4)))

get_dv_dtau(distance) ==
    LET L == F(ANGULAR_MOMENTUM)
        M == F(MASS)
        d == F(distance)
    IN  FSub(FSub(FDiv(FMul(L, F(Fix(2))), FPow(d, 3)),
                  FDiv(FMul(M, FPow(F(light_speed), 2)), FPow(d, 2))),
             FDiv(FMul(FMul(F(Fix(3)), FPow(L, 2)), M), FPow(d, 4)))

get_dt_dtau_swapped(distance) ==
    FDiv(F(ENERGY),
         FSub(FDiv(FMul(F(Fix(2)), F(MASS)), F(distance)), F(Fix(1))))

get_dt_dtau(distance) ==
    FDiv(F(ENERGY),
         FSub(F(Fix(1)), FDiv(FMul(F(Fix(2)), F(MASS)), F(distance))))

get_dphi_dtau_mass(distance) ==
    FDiv(F(MASS), FPow(F(distance), 2))

get_dphi_dtau(distance) ==
    FDiv(F(ANGULAR_MOMENTUM), FPow(F(distance), 2))

\* ---------------------------------------------------------------- simulate
\* sim.simulate() is called
simulate_call ==
    /\ pc = "idle"
    /\ pc' = "L83"
    /\ dr_dtau' = 0 /\ dv_dtau' = 0 /\ dphi_dtau' = 0 /\ dt_dtau' = 0
    /\ UNCHANGED <<params, showArgs, display, trajectory, steps, returns>>

\* line 83: while self.distances[-1] > self.BLACK_HOLE_RADIUS
LoopCondition_ge == Last(distances) >= BLACK_HOLE_RADIUS
LoopCondition == Last(distances) > BLACK_HOLE_RADIUS

\* A run that has become outbound never ends: with mass 0 and angular
\* momentum >= 0, get_dv_dtau is >= 0 at every distance > 0, so a speed that
\* is >= 0 stays >= 0 and the distance never decreases again.  The model
\* records the samples of MaxSteps iterations of such a run; every other run
\* is followed to its end.
Outbound ==
    /\ MASS = 0
    /\ ANGULAR_MOMENTUM >= 0
    /\ Last(speeds) >= 0
    /\ Last(distances) > BLACK_HOLE_RADIUS

loop_enter ==
    /\ pc = "L83"
    /\ LoopCondition
    /\ Outbound => steps < MaxSteps
    /\ pc' = "L85"
    /\ UNCHANGED <<params, showArgs, display, trajectory, steps, returns,
                   locals>>

\* lines 83-94, an iteration of an outbound run past MaxSteps: the body runs
\* (pc "beyond") and the loop test is reached again with a distance that is
\* no smaller; the samples it appends are not recorded
loop_unrecorded ==
    /\ pc \in {"L83", "beyond"}
    /\ LoopCondition
    /\ Outbound
    /\ steps >= MaxSteps
    /\ pc' = IF pc = "L83" THEN "beyond" ELSE "L83"
    /\ UNCHANGED <<params, showArgs, display, trajectory, steps, returns,
                   locals>>

loop_exit ==
    /\ pc = "L83"
    /\ ~LoopCondition
    /\ pc' = "idle"
    /\ returns' = TRUE
    \* the locals end with the call
    /\ dr_dtau' = 0 /\ dv_dtau' = 0 /\ dphi_dtau' = 0 /\ dt_dtau' = 0
    /\ UNCHANGED <<params, showArgs, display, trajectory, steps>>

\* lines 85-88: a derivative is evaluated and bound to its local, or the
\* exception it raises leaves simulate()
line85 ==
    /\ pc = "L85"
    /\ LET r == get_dr_dtau(Last(speeds))
       IN  IF r.exc THEN pc' = "raised" /\ UNCHANGED dr_dtau
           ELSE pc' = "L86" /\ dr_dtau' = r.val
    /\ UNCHANGED <<params, showArgs, display, trajectory, steps, returns,
                   dv_dtau, dphi_dtau, dt_dtau>>

line86 ==
    /\ pc = "L86"
    /\ LET r == get_dv_dtau(Last(distances))
       IN  IF r.exc THEN pc' = "raised" /\ UNCHANGED dv_dtau
           ELSE pc' = "L87" /\ dv_dtau' = r.val
    /\ UNCHANGED <<params, showArgs, display, trajectory, steps, returns,
                   dr_dtau, dphi_dtau, dt_dtau>>

line87 ==
    /\ pc = "L87"
    /\ LET r == get_dphi_dtau(Last(distances))
       IN  IF r.exc THEN pc' = "raised" /\ UNCHANGED dphi_dtau
           ELSE pc' = "L88" /\ dphi_dtau' = r.val
    /\ UNCHANGED <<params, showArgs, display, trajectory, steps, returns,
                   dr_dtau, dv_dtau, dt_dtau>>

line88 ==
    /\ pc = "L88"
    /\ LET r == get_dt_dtau(Last(distances))
       IN  IF r.exc THEN pc' = "raised" /\ UNCHANGED dt_dtau
           ELSE pc' = "L91" /\ dt_dtau' = r.val
    /\ UNCHANGED <<params, showArgs, display, trajectory, steps, returns,
                   dr_dtau, dv_dtau, dphi_dtau>>

\* lines 91-94: new val = old val + dval/dtau * dtau
Euler(old, dval_dtau) == FAdd(F(old), FMul(F(dval_dtau), F(DTAU))).val

speeds_append_stale == Append(speeds, Euler(Last(speeds), dt_dtau))
speeds_append == Append(speeds, Euler(Last(speeds), dv_dtau))
distances_append_new_speed ==
    Append(distances, Euler(Last(distances), Last(speeds)))
distances_insert0 == <<Euler(Last(distances), dr_dtau)>> \o distances
distances_append == Append(distances, Euler(Last(distances), dr_dtau))
angles_overwrite ==
    [angles EXCEPT ![Len(angles)] = Euler(Last(angles), dphi_dtau)]
angles_append == Append(angles, Euler(Last(angles), dphi_dtau))
times_append == Append(times, Euler(Last(times), dt_dtau))

line91 ==
    /\ pc = "L91"
    /\ speeds' = speeds_append
    /\ pc' = "L92"
    /\ UNCHANGED <<params, showArgs, display, distances, angles, times, steps,
                   returns, locals>>

line92 ==
    /\ pc = "L92"
    /\ distances' = distances_append
    /\ pc' = "L93"
    /\ UNCHANGED <<params, showArgs, display, speeds, angles, times, steps,
                   returns, locals>>

line93 ==
    /\ pc = "L93"
    /\ angles' = angles_append
    /\ pc' = "L94"
    /\ UNCHANGED <<params, showArgs, display, distances, speeds, times, steps,
                   returns, locals>>

\* line 94 with get_dt_dtau called inside the append
line94_inline ==
    /\ pc = "L94"
    /\ LET r == get_dt_dtau(Last(distances))
       IN  IF r.exc
           THEN pc' = "raised" /\ UNCHANGED <<times, steps>>
           ELSE /\ times' = Append(times, Euler(Last(times), r.val))
                /\ steps' = steps + 1
                /\ pc' = "L83"
    /\ UNCHANGED <<params, showArgs, display, distances, speeds, angles,
                   returns, locals>>

line94 ==
    /\ pc = "L94"
    /\ times' = times_append
    /\ steps' = steps + 1
    /\ pc' = "L83"
    /\ UNCHANGED <<params, showArgs, display, distances, speeds, angles,
                   returns, locals>>

\* -------------------------------------------------------------------- show
\* Python round() of the grid value x: nearest integer, ties to even
PyRound(x) ==
    LET q == x \div SCALE
        r == x - q * SCALE
    IN  IF 2 * r < SCALE THEN q
        ELSE IF 2 * r > SCALE THEN q + 1
        ELSE IF q % 2 = 0 THEN q ELSE q + 1

FpsArgs == {None, Fix(1)}
TimeScaleArgs == {Fix(1), Fix(3)}

\* lines 70-71: xs and ys are new arrays computed from distances and angles
pixel_coordinates_in_place ==
    /\ distances' = [i \in 1..Len(distances) |->
                        FMul(F(distances[i]), F(Fix(10))).val]
    /\ UNCHANGED <<angles, speeds, times>>
pixel_coordinates == UNCHANGED trajectory

\* lines 40-77, given the attributes show() has just set
initialize_drawing_variables ==
    LET spf == IF do_animation'
               THEN FDiv(F(Fix(stars_number')), FMul(F(Fix(2)), F(fps')))
               ELSE F(Fix(stars_number'))
        sspf == FDiv(F(time_scale'), FMul(F(fps'), F(DTAU)))
    IN  IF spf.exc \/ sspf.exc
        THEN /\ pc' = "raised"
             /\ UNCHANGED <<stars_per_frame, simulation_steps_per_frame,
                            stars_index, simulation_steps_index, state,
                            clicked, events, reads, trajectory>>
        ELSE /\ stars_per_frame' = PyRound(spf.val)
             /\ simulation_steps_index' = 0
             /\ stars_index' = 0
             /\ simulation_steps_per_frame' = PyRound(sspf.val)
             /\ state' = "click_to_start"
             /\ clicked' = FALSE
             /\ events' = [quit |-> FALSE, click |-> FALSE]
             /\ reads' = <<>>
             /\ pc' = "show"
             /\ pixel_coordinates

\* lines 97-134: sim.show(...) is called after simulate() has returned
show_call ==
    /\ pc = "idle"
    /\ returns
    /\ \E f \in FpsArgs, ts \in TimeScaleArgs, n \in 0..MaxStars,
          anim \in BOOLEAN :
         /\ fps' = IF f = None THEN FDiv(F(Fix(1)), F(DTAU)).val ELSE f
         /\ time_scale' = ts
         /\ do_animation' = anim
         /\ stars_number' = n
    /\ initialize_drawing_variables
    /\ UNCHANGED <<params, steps, returns, locals>>

\* lines 139-148 of one frame: the click is reset, then the events are read
Events_no_reset(quit, click) ==
    /\ events' = [quit |-> quit, click |-> click]
    /\ clicked' = IF click THEN TRUE ELSE clicked
Events(quit, click) ==
    /\ events' = [quit |-> quit, click |-> click]
    /\ clicked' = IF click THEN TRUE
                  ELSE IF clicked THEN FALSE ELSE clicked

\* lines 138, 146 and 171: the loop runs again unless a QUIT was received;
\* an exception raised by the handler leaves show()
Running(quit, exc) ==
    pc' = IF exc THEN "raised" ELSE IF quit THEN "idle" ELSE "show"

\* lines 174-184
click_to_start ==
    state' = IF clicked' THEN "drawing_stars" ELSE state

\* lines 190-199: the rest of the for loop, k iterations left
RECURSIVE draw_stars_loop_skip(_, _)
draw_stars_loop_skip(k, index) ==
    IF k <= 0 THEN [stars_index |-> index, state |-> "drawing_stars"]
    ELSE IF ~(index < stars_number)
         THEN [stars_index |-> 0, state |-> "drawing_simulation"]
         ELSE draw_stars_loop_skip(k - 1, index + 1)

RECURSIVE draw_stars_loop(_, _)
draw_stars_loop(k, index) ==
    IF k <= 0 THEN [stars_index |-> index, state |-> "drawing_stars"]
    ELSE IF ~(index < stars_number)
         THEN [stars_index |-> 0, state |-> "drawing_black_hole"]
         ELSE draw_stars_loop(k - 1, index + 1)

\* lines 187-201
draw_stars ==
    LET r == draw_stars_loop(stars_per_frame, stars_index)
    IN  stars_index' = r.stars_index /\ state' = r.state

\* lines 204-217
draw_black_hole ==
    state' = "drawing_simulation"

\* lines 223-238: the rest of the for loop, k iterations left; rd are the
\* indices read so far, and reading xs[index] past the end raises IndexError
RECURSIVE draw_simulation_loop_late(_, _, _)
draw_simulation_loop_late(k, index, rd) ==
    IF k <= 0
    THEN [simulation_steps_index |-> index, state |-> "drawing_simulation",
          reads |-> rd, exc |-> FALSE]
    ELSE IF ~(index < Len(distances))
    THEN [simulation_steps_index |-> index, state |-> "drawing_simulation",
          reads |-> rd, exc |-> TRUE]
    ELSE IF ~(index + 1 <= Len(distances))
    THEN [simulation_steps_index |-> 0, state |-> "click_to_start",
          reads |-> Append(rd, index), exc |-> FALSE]
    ELSE draw_simulation_loop_late(k - 1, index + 1, Append(rd, index))

RECURSIVE draw_simulation_loop(_, _, _)
draw_simulation_loop(k, index, rd) ==
    IF k <= 0
    THEN [simulation_steps_index |-> index, state |-> "drawing_simulation",
          reads |-> rd, exc |-> FALSE]
    ELSE IF ~(index < Len(distances))
    THEN [simulation_steps_index |-> index, state |-> "drawing_simulation",
          reads |-> rd, exc |-> TRUE]
    ELSE IF ~(index + 1 < Len(distances))
    THEN [simulation_steps_index |-> 0, state |-> "click_to_start",
          reads |-> Append(rd, index), exc |-> FALSE]
    ELSE draw_simulation_loop(k - 1, index + 1, Append(rd, index))

\* lines 220-238
draw_simulation ==
    draw_simulation_loop(simulation_steps_per_frame,
                         simulation_steps_index, reads)

\* lines 138-167: one frame of the game loop, by the handler it dispatches to
frame_click_to_start ==
    /\ pc = "show" /\ state = "click_to_start"
    /\ \E quit \in BOOLEAN, click \in BOOLEAN :
         Events(quit, click) /\ Running(quit, FALSE)
    /\ click_to_start
    \* a playback starts
    /\ reads' = IF state' = "drawing_stars" THEN <<>> ELSE reads
    /\ UNCHANGED <<params, trajectory, steps, returns, locals, showArgs,
                   stars_number, stars_per_frame, simulation_steps_per_frame,
                   stars_index, simulation_steps_index>>

frame_draw_stars ==
    /\ pc = "show" /\ state = "drawing_stars"
    /\ \E quit \in BOOLEAN, click \in BOOLEAN :
         Events(quit, click) /\ Running(quit, FALSE)
    /\ draw_stars
    /\ UNCHANGED <<params, trajectory, steps, returns, locals, showArgs,
                   stars_number, stars_per_frame, simulation_steps_per_frame,
                   simulation_steps_index, reads>>

frame_draw_black_hole ==
    /\ pc = "show" /\ state = "drawing_black_hole"
    /\ \E quit \in BOOLEAN, click \in BOOLEAN :
         Events(quit, click) /\ Running(quit, FALSE)
    /\ draw_black_hole
    /\ UNCHANGED <<params, trajectory, steps, returns, locals, showArgs,
                   stars_number, stars_per_frame, simulation_steps_per_frame,
                   stars_index, simulation_steps_index, reads>>

frame_draw_simulation ==
    /\ pc = "show" /\ state = "drawing_simulation"
    /\ LET r == draw_simulation
       IN  /\ \E quit \in BOOLEAN, click \in BOOLEAN :
                Events(quit, click) /\ Running(quit, r.exc)
           /\ simulation_steps_index' = r.simulation_steps_index
           /\ state' = r.state
           /\ reads' = r.reads
    /\ UNCHANGED <<params, trajectory, steps, returns, locals, showArgs,
                   stars_number, stars_per_frame, simulation_steps_per_frame,
                   stars_index>>

\* a frame of the game loop
Frame ==
    \/ frame_click_to_start \/ frame_draw_stars
    \/ frame_draw_black_hole \/ frame_draw_simulation

Next ==
    \/ simulate_call
    \/ loop_enter
    \/ loop_unrecorded
    \/ loop_exit
    \/ line85
    \/ line86
    \/ line87
    \/ line88
    \/ line91
    \/ line92
    \/ line93
    \/ line94
    \/ show_call
    \/ frame_click_to_start
    \/ frame_draw_stars
    \/ frame_draw_black_hole
    \/ frame_draw_simulation

vars == <<simVars, showArgs, display>>

Spec == Init /\ [][Next]_vars

\* simulate() is sequential code: once called, its next statement runs
SimulateStep ==
    \/ loop_enter \/ loop_unrecorded \/ loop_exit
    \/ line85 \/ line86 \/ line87 \/ line88
    \/ line91 \/ line92 \/ line93 \/ line94

FairSpec == Spec /\ WF_vars(SimulateStep)

\* the game loop of show() keeps processing frames
ShowFairSpec == Spec /\ WF_vars(Frame)

\* -------------------------------------------------------------- properties
InIteration == pc \in {"L85", "L86", "L87", "L88", "L91", "L92", "L93", "L94"}

\* C1: whenever simulate() has returned, the last entry of distances is
\* <= BLACK_HOLE_RADIUS and every earlier entry is > BLACK_HOLE_RADIUS; the
\* loop test looks at the most recently appended sample, and no iteration
\* starts from a sample whose distance is <= BLACK_HOLE_RADIUS.
C1_CapturedOnlyAtLast ==
    /\ \A i \in 1..(Len(distances) - 1) : distances[i] > BLACK_HOLE_RADIUS
    /\ returns => Last(distances) <= BLACK_HOLE_RADIUS
    /\ pc \in {"L85", "L86", "L87", "L88", "L91"}
           => Last(distances) > BLACK_HOLE_RADIUS

C1_Witness ==
    /\ returns
    /\ Len(distances) >= 4
    /\ Last(distances) <= BLACK_HOLE_RADIUS

\* the preconditions of C2
ValidStart == args.starting_distance > BLACK_HOLE_RADIUS /\ DTAU > 0
AllAbove2M == \A i \in 1..Len(distances) : distances[i] > 2 * MASS

\* C2 as stated: for every configuration with starting_distance >
\* BLACK_HOLE_RADIUS, dtau > 0 and distance > 2*mass at every sample, a call
\* of simulate() terminates with the final distance <= BLACK_HOLE_RADIUS.
C2_Original ==
    [](pc = "L83" /\ ValidStart
         => <>(~AllAbove2M
               \/ (returns /\ Last(distances) <= BLACK_HOLE_RADIUS)))

\* an outbound run, at any statement of the iteration
OutboundRun ==
    /\ Outbound
    /\ pc \in {"L86", "L87", "L88", "L91", "L92"} => dr_dtau >= 0

\* C2 amended: simulate() returns once the most recent sample has distance
\* <= BLACK_HOLE_RADIUS, and that is not guaranteed by the preconditions: a
\* run with mass 0, angular momentum >= 0 and speed >= 0 stays outbound at
\* every later statement and simulate() never returns from it.
C2_TerminatesOnlyWhenCaptured ==
    /\ [](pc = "L83" /\ ~LoopCondition
            => <>(returns /\ pc = "idle"
                  /\ Last(distances) <= BLACK_HOLE_RADIUS))
    /\ [][OutboundRun => OutboundRun' /\ ~returns' /\ pc' # "raised"]_vars

C2_Witness ==
    /\ pc = "L83"
    /\ ValidStart /\ AllAbove2M
    /\ OutboundRun
    /\ steps >= 3
    /\ Last(distances) > distances[1]

\* the distances the claim names: 1 - 2*mass/d is 0, or d itself is 0
ZeroDenominator(d) == d = 2 * MASS \/ d = 0

\* a derivative evaluated at distance d divides by zero
DividesByZero(d) ==
    get_dv_dtau(d).exc \/ get_dphi_dtau(d).exc \/ get_dt_dtau(d).exc

EqualLengths ==
    /\ Len(angles) = Len(distances)
    /\ Len(speeds) = Len(distances)
    /\ Len(times) = Len(distances)

Seed ==
    /\ distances = <<args.starting_distance>>
    /\ angles = <<args.starting_angle>>
    /\ speeds = <<args.starting_speed>>
    /\ times = <<0>>

C5_SeedAtIndexZero ==
    /\ distances[1] = args.starting_distance
    /\ angles[1] = args.starting_angle
    /\ speeds[1] = args.starting_speed
    /\ times[1] = 0
    /\ steps >= 1 =>
         /\ distances[2] = Euler(args.starting_distance, args.starting_speed)
         /\ Len(distances) = steps + 1 \/ Len(distances) = steps + 2

C5_Witness ==
    /\ returns
    /\ steps >= 2
    /\ distances[2] # distances[1]
    /\ speeds[2] # speeds[1]
    /\ times[2] # times[1]

\* C6: distances, angles, speeds and times have the same length at
\* construction, at every evaluation of the loop condition and when
\* simulate() has returned; that length is 1 + the number of steps taken.
C6_EqualLengths ==
    pc \notin {"L92", "L93", "L94"}
        => EqualLengths /\ Len(distances) = steps + 1

C6_Witness ==
    /\ pc = "L83"
    /\ steps >= 3
    /\ EqualLengths
    /\ Len(distances) = 4

\* C7: each step is explicit Euler on sample i only: distance[i+1] =
\* distance[i] + speed[i]*dtau, speed[i+1] = speed[i] + dv(distance[i])*dtau,
\* angle[i+1] = angle[i] + dphi(distance[i])*dtau and time[i+1] = time[i] +
\* dt(distance[i])*dtau; no value of sample i+1 enters sample i+1.
C7_ExplicitEuler ==
    /\ \A i \in 1..(Len(distances) - 1) :
         distances[i + 1] = Euler(distances[i], get_dr_dtau(speeds[i]).val)
    /\ \A i \in 1..(Len(speeds) - 1) :
         speeds[i + 1] = Euler(speeds[i], get_dv_dtau(distances[i]).val)
    /\ \A i \in 1..(Len(angles) - 1) :
         angles[i + 1] = Euler(angles[i], get_dphi_dtau(distances[i]).val)
    /\ \A i \in 1..(Len(times) - 1) :
         times[i + 1] = Euler(times[i], get_dt_dtau(distances[i]).val)

C7_Witness ==
    /\ pc = "L83"
    /\ steps >= 3
    /\ speeds[2] # speeds[1]
    /\ speeds[3] # speeds[2]
    /\ distances[3] # distances[2]
    /\ angles[3] # angles[2]
    /\ times[3] # times[2]

\* C8: once simulate() has returned the trajectory is immutable: a further
\* call of simulate() appends nothing, and show() with every handler it
\* runs leaves distances, angles, speeds and times unchanged.
C8_ImmutableAfterReturn == [][returns => UNCHANGED trajectory]_vars

C8_Witness ==
    /\ returns
    /\ pc = "show"
    /\ state = "drawing_simulation"
    /\ simulation_steps_index >= 1
    /\ Len(distances) >= 3

\* C9: whenever energy > 0 and distance > 2*mass at every sample (with
\* dtau > 0), times is non-decreasing.
C9_TimesNonDecreasing ==
    (ENERGY > 0 /\ DTAU > 0 /\ AllAbove2M)
        => \A i \in 1..(Len(times) - 1) : times[i + 1] >= times[i]

C9_Witness ==
    /\ returns
    /\ ENERGY > 0 /\ DTAU > 0 /\ AllAbove2M
    /\ MASS > 0
    /\ Len(times) >= 4
    /\ \A i \in 1..(Len(times) - 1) : times[i + 1] > times[i]

\* C10: with angular_momentum = 0, get_dphi_dtau is 0 at every step and
\* every entry of angles equals starting_angle.
C10_ZeroAngularMomentum ==
    ANGULAR_MOMENTUM = 0
        => /\ \A i \in 1..Len(angles) : angles[i] = args.starting_angle
           /\ \A i \in 1..Len(distances) :
                distances[i] > BLACK_HOLE_RADIUS
                    => get_dphi_dtau(distances[i]) = F(0)
           /\ dphi_dtau = 0

C10_Witness ==
    /\ returns
    /\ ANGULAR_MOMENTUM = 0
    /\ MASS > 0
    /\ Len(angles) >= 4
    /\ distances[4] # distances[1]

\* the reference force law 2*L/r^3 - M*c^2/r^2 - 3*L^2*M/r^4
RefForce(L, M, c, r) ==
    FSub(FSub(FDiv(FMul(F(Fix(2)), F(L)), FPow(F(r), 3)),
              FDiv(FMul(F(M), FPow(F(c), 2)), FPow(F(r), 2))),
         FDiv(FMul(FMul(F(Fix(3)), FPow(F(L), 2)), F(M)), FPow(F(r), 4)))

\* the trajectory as a function of the constructor arguments a alone: its
\* first n samples
RefStep(old, dval_dtau, dtau) == old + FMul(dval_dtau, F(dtau)).val

RECURSIVE RefTrajectory(_, _)
RefTrajectory(a, n) ==
    IF n <= 1
    THEN [distances |-> <<a.starting_distance>>,
          angles |-> <<a.starting_angle>>,
          speeds |-> <<a.starting_speed>>,
          times |-> <<0>>]
    ELSE LET p == RefTrajectory(a, n - 1)
             r == Last(p.distances)
         IN  [distances |-> Append(p.distances,
                  RefStep(r, F(Last(p.speeds)), a.dtau)),
              angles |-> Append(p.angles,
                  RefStep(Last(p.angles),
                          FDiv(F(a.angular_momentum), FPow(F(r), 2)),
                          a.dtau)),
              speeds |-> Append(p.speeds,
                  RefStep(Last(p.speeds),
                          RefForce(a.angular_momentum, a.mass, Fix(1), r),
                          a.dtau)),
              times |-> Append(p.times,
                  RefStep(Last(p.times),
                          FDiv(F(a.energy),
                               FSub(F(Fix(1)),
                                    FDiv(FMul(F(Fix(2)), F(a.mass)), F(r)))),
                          a.dtau))]

RefRadius(a) ==
    IF a.black_hole_radius = None THEN Fix(5) ELSE a.black_hole_radius

\* C11: the integration is deterministic: the trajectory is a function of
\* the constructor arguments alone, so two Simulator instances constructed
\* with identical parameters and run with simulate() hold identical
\* distances, angles, speeds and times (same length, same value at every
\* index); from the first call of show() on, no display state or event
\* changes them.
C11_Deterministic ==
    /\ [](state = "unset" =>
            LET ref == RefTrajectory(args, Len(speeds))
            IN  /\ distances = SubSeq(ref.distances, 1, Len(distances))
                /\ angles = SubSeq(ref.angles, 1, Len(angles))
                /\ speeds = ref.speeds
                /\ times = SubSeq(ref.times, 1, Len(times))
                /\ returns =>
                     /\ EqualLengths
                     /\ Last(ref.distances) <= RefRadius(args)
                     /\ \A i \in 1..(Len(speeds) - 1) :
                          ref.distances[i] > RefRadius(args))
    /\ [][state' # "unset" => UNCHANGED trajectory]_vars

C11_Witness ==
    /\ returns
    /\ pc = "show"
    /\ state = "drawing_simulation"
    /\ Len(distances) >= 4
    /\ speeds[3] # speeds[2]
    /\ times[3] # times[2]
    /\ angles[3] # angles[2]

\* distances (other than 0) at which the force law is compared
ForceDistances ==
    {Fix(-3), Fix(-1), Fix(1), Rat(3, 2), Rat(5, 2), Fix(4), Fix(7)}

\* C12: for every distance r # 0, get_dv_dtau(r) equals the reference force
\* law 2*L/r^3 - M*c^2/r^2 - 3*L^2*M/r^4 with L = angular_momentum, M = mass,
\* c = light_speed = 1; the first term is linear in L with factor 2.
C12_ForceLaw ==
    /\ light_speed = Fix(1)
    /\ pc \in {"L85", "L86", "L87", "L88", "L91", "L92"} =>
         \A r \in ForceDistances \cup {Last(distances)} :
           r # 0 => get_dv_dtau(r)
                      = RefForce(ANGULAR_MOMENTUM, MASS, light_speed, r)
    /\ pc \in {"L87", "L88", "L91"}
         => dv_dtau = RefForce(ANGULAR_MOMENTUM, MASS, Fix(1),
                               Last(distances)).val

C12_Witness ==
    /\ pc = "L87"
    /\ ANGULAR_MOMENTUM > 0
    /\ MASS > 0
    /\ steps >= 1
    /\ dv_dtau # 0
    /\ ~get_dv_dtau(Last(distances)).exc

\* new is old, or old with one value appended
Extends(old, new) ==
    \/ new = old
    \/ Len(new) = Len(old) + 1 /\ SubSeq(new, 1, Len(old)) = old

\* C13: the trajectory is append-only: every completed iteration of the
\* simulate() loop appends exactly one value to each of distances, angles,
\* speeds and times, and no step modifies, reorders or removes an entry
\* that was already present.
C13_AppendOnly ==
    [][/\ Extends(distances, distances') /\ Extends(angles, angles')
       /\ Extends(speeds, speeds') /\ Extends(times, times')
       /\ (pc = "L83" /\ pc' = "L85")
            => EqualLengths /\ Len(distances) = steps + 1
       /\ (pc = "L94" /\ pc' = "L83")
            => /\ Len(distances') = steps + 2
               /\ Len(angles') = steps + 2
               /\ Len(speeds') = steps + 2
               /\ Len(times') = steps + 2]_vars

C13_Witness ==
    /\ pc = "L83"
    /\ steps >= 2
    /\ Len(distances) = 3
    /\ distances[3] # distances[2]
    /\ distances[2] # distances[1]

\* C14: if a derivative evaluation in a simulate() iteration fails
\* (division by zero), nothing has been appended in that iteration: all four
\* derivatives are computed before the first append, so the four sequences
\* are as they were after the previous step and have equal length.
C14_NothingAppendedOnFailure ==
    /\ [](pc = "raised" =>
            /\ EqualLengths
            /\ Len(distances) = steps + 1
            /\ DividesByZero(Last(distances)))
    /\ [][/\ pc \in {"L91", "L92", "L93", "L94"} => pc' # "raised"
          /\ pc' = "raised" => UNCHANGED <<trajectory, steps>>]_vars

C14_Witness ==
    /\ pc = "raised"
    /\ steps >= 2
    /\ Len(times) = 3
    /\ EqualLengths

\* ------------------------------------------------------------------------
\* the indices 0, 1, ..., n-1 in order
Upto(n) == [i \in 1..n |-> i - 1]

\* C15: every read of xs and ys by draw_simulation uses an index in
\* 0..len(distances)-1, so no read raises; the index never rests at
\* len(distances), being reset to 0 in the iteration that reaches it; and the
\* samples of one playback are read in the order 0, 1, ..., len-1, each once.
C15_ReadsInOrder ==
    /\ reads = Upto(Len(reads))
    /\ Len(reads) <= Len(distances)
    /\ returns => pc # "raised"
    /\ state # "unset" =>
         /\ 0 <= simulation_steps_index
         /\ simulation_steps_index < Len(distances)
    /\ state = "drawing_simulation" =>
         /\ simulation_steps_index = Len(reads)
         /\ Len(reads) < Len(distances)
    /\ state \in {"click_to_start", "drawing_stars", "drawing_black_hole"} =>
         /\ simulation_steps_index = 0
         /\ reads \in {<<>>, Upto(Len(distances))}
         /\ state # "click_to_start" => reads = <<>>

C15_Witness ==
    /\ pc = "show"
    /\ state = "click_to_start"
    /\ simulation_steps_per_frame = 2
    /\ Len(distances) = 3
    /\ reads = <<0, 1, 2>>

\* ------------------------------------------------------------------------
\* the edges of the display cycle
Cycle ==
    {<<"click_to_start", "drawing_stars">>,
     <<"drawing_stars", "drawing_black_hole">>,
     <<"drawing_black_hole", "drawing_simulation">>,
     <<"drawing_simulation", "click_to_start">>}

\* C16: show() starts the display at 'click_to_start'; the display state
\* changes only in a frame and only along one edge of the cycle click_to_start
\* -> drawing_stars -> drawing_black_hole -> drawing_simulation ->
\* click_to_start; a drawing_black_hole frame always moves on; and a frame runs
\* the handler of its state only, so the counters of the other handlers stay.
C16_StateCycle ==
    [][/\ (pc = "idle" /\ pc' = "show") => state' = "click_to_start"
       /\ pc # "show" => (state' = state \/ (pc = "idle" /\ pc' = "show"))
       /\ pc = "show" =>
            /\ state' = state \/ <<state, state'>> \in Cycle
            /\ state = "drawing_black_hole" => state' = "drawing_simulation"
            /\ state # "drawing_stars" => stars_index' = stars_index
            /\ state # "drawing_simulation" =>
                 simulation_steps_index' = simulation_steps_index]_vars

C16_Witness ==
    /\ pc = "show"
    /\ state = "click_to_start"
    /\ stars_number = 1
    /\ stars_per_frame = 1
    /\ reads # <<>>
    /\ ~clicked

\* ------------------------------------------------------------------------
\* C17: the display leaves 'click_to_start' only in a frame whose event loop
\* received a MOUSEBUTTONDOWN; after every frame the clicked flag tells
\* whether that very frame received one, so a click received in another state
\* does not start a later playback.
C17_ClickNotCarriedOver ==
    [][pc = "show" =>
         /\ clicked' = events'.click
         /\ (state = "click_to_start" /\ state' # "click_to_start")
              => events'.click
         /\ (state = "click_to_start" /\ ~events'.click)
              => state' = "click_to_start"]_vars

\* a playback has just ended in a frame that received a click
C17_Witness ==
    /\ pc = "show"
    /\ state = "click_to_start"
    /\ reads = Upto(Len(distances))
    /\ clicked
    /\ events.click
    /\ ~events.quit

\* ------------------------------------------------------------------------
\* C18: once a click has moved the display to 'drawing_stars', and frames
\* keep being processed without a QUIT, the display reaches
\* 'drawing_simulation', and from every drawing state it comes back to
\* 'click_to_start', whatever the arguments of show() and dtau are.
C18_PlaybackCompletes ==
    /\ (pc = "show" /\ state = "drawing_stars")
          ~> (state = "drawing_simulation" \/ pc # "show")
    /\ (pc = "show" /\ state \in {"drawing_stars", "drawing_black_hole",
                                  "drawing_simulation"})
          ~> (state = "click_to_start" \/ pc # "show")

====
